---------------------------- MODULE Spec2Model ----------------------------
(***************************************************************************)
(* The code-run agent of qiskit-studio (src/api/coderun-agent/agent.py):   *)
(* the configuration rewriter replace_ibm_quantum_config, the execution    *)
(* sandbox execute_python_code and the gateway run_program with its        *)
(* offload to the default thread pool and its 30 minute timeout.           *)
(*                                                                         *)
(* Text is a sequence of atoms.  An atom is a string that the patterns of  *)
(* the rewriter never cut: every literal piece of a pattern is one atom,   *)
(* the newline is the atom NL, and what a character class of a pattern     *)
(* ranges over ([^']+, [^}]+, \d+, .*?) is a run of atoms.                 *)
(***************************************************************************)
EXTENDS Integers, Sequences, FiniteSets, TLC

(***************************************************************************)
(* Atoms of a code buffer                                                  *)
(***************************************************************************)
NL == "\n"
AerImport == "from qiskit_aer import AerSimulator"
AerBackend == "backend = AerSimulator()"
PrintLocal == "print(\"Using local simulator...\")"
IbmImport == "from qiskit_ibm_runtime import QiskitRuntimeService"
SvcAssign == "service = "
SvcCall == "QiskitRuntimeService()"
SvcOpen == "QiskitRuntimeService("
SvcTokOpen == "QiskitRuntimeService(token='"
SvcTokClose == "')"
LeastBusy == "backend = service.least_busy(operational=True, simulator=False)"
PrintIbmOpen == "print(f\"Using IBM Quantum backend: {"
PrintIbmClose == "}\")"
BackendName == "backend.name"
InitComment == "# Initialize IBM Quantum Runtime Service with provided configuration"
Indent == "    "
StepMark == "## STEP "
CfgTitle == " : IBM Quantum Config"
TestTitle == " : Test"
OptLine == "sampler.options.default_shots = 1024"
OldTok == "OLD"

\* \d+ of the section-header pattern ranges over these atoms.
Digits == {"0", "1"}

\* Program lines the sandbox interprets (see Sem below).
PrintA == "print('a')"
PrintB == "print('b')"
PrintFirst == "print('first')"
ErrE == "import sys; sys.stderr.write('e')"
PrintEsc == "print('x\\\\ny')"
RaiseBoom == "raise ValueError('boom')"
RaiseExit == "raise SystemExit(1)"
LoopForever == "while True: pass"
Unclosed == "("
SetX == "x = 1"
SetLeak == "import builtins; builtins.leak = 1"
PrintX == "print(x)"
PrintLeak == "print(leak)"
SetMode == "import __main__; __main__.LOCAL_MODE = False"

\* The character classes of the patterns, atom by atom.
HasQuote(a) ==
    a \in {SvcTokOpen, SvcTokClose, PrintA, PrintB, PrintFirst, ErrE, PrintEsc,
           RaiseBoom}
HasBrace(a) == a \in {PrintIbmClose}
HasOptions(a) == a \in {OptLine}
HasIbmCfg(a) == a \in {CfgTitle}

\* The classes a pattern may range over, by name.
AnyNoQuote == "[^']+"
AnyNoBrace == "[^}]+"
AnyNotNL == ".*?"
InClass(cls, a) ==
    CASE cls = AnyNoQuote -> ~HasQuote(a)
      [] cls = AnyNoBrace -> ~HasBrace(a)
      [] cls = AnyNotNL -> a # NL

(***************************************************************************)
(* Python's None, and the values a JSON field may carry besides text       *)
(***************************************************************************)
None == "None"
\* A JSON number in a field where text is expected.
Num5 == "<int 5>"
IsStr(v) == v \notin {None, Num5}
\* Python truthiness of a field value: None and "" are false.
Truthy(v) == v \notin {None, ""}

(***************************************************************************)
(* Sequences                                                               *)
(***************************************************************************)
RECURSIVE Flatten(_)
Flatten(ss) == IF ss = <<>> THEN <<>> ELSE Head(ss) \o Flatten(Tail(ss))

Contains(s, a) == \E i \in 1..Len(s) : s[i] = a

\* s[i..j-1]
Slice(s, i, j) == SubSeq(s, i, j - 1)

\* The first position at or after i of s whose atom is not in the class: the
\* end of the longest run of the class starting at i.
RECURSIVE RunEnd(_, _, _)
RunEnd(s, i, cls) ==
    IF i <= Len(s) /\ InClass(cls, s[i]) THEN RunEnd(s, i + 1, cls) ELSE i

(***************************************************************************)
(* Patterns: a sequence of literal atoms and of the classes [^']+, [^}]+.  *)
(* MatchFrom gives the position after the match of pat[k..] at position i  *)
(* of s, and 0 when there is none.  A class run is followed in every       *)
(* pattern by the character the class excludes, so the run is the longest  *)
(* one and the match is unique.                                            *)
(***************************************************************************)
RECURSIVE MatchFrom(_, _, _, _)
MatchFrom(pat, k, s, i) ==
    IF k > Len(pat) THEN i
    ELSE IF pat[k] = AnyNoQuote
         THEN LET j == RunEnd(s, i, AnyNoQuote)
              IN  IF j = i THEN 0 ELSE MatchFrom(pat, k + 1, s, j)
    ELSE IF pat[k] = AnyNoBrace
         THEN LET j == RunEnd(s, i, AnyNoBrace)
              IN  IF j = i THEN 0 ELSE MatchFrom(pat, k + 1, s, j)
    ELSE IF i <= Len(s) /\ s[i] = pat[k]
         THEN MatchFrom(pat, k + 1, s, i + 1)
         ELSE 0

re_search(pat, s) == \E i \in 1..Len(s) : MatchFrom(pat, 1, s, i) # 0

\* re.sub: every non-overlapping match, leftmost first, gives way to repl.
RECURSIVE SubFrom(_, _, _, _)
SubFrom(pat, repl, s, i) ==
    IF i > Len(s) THEN <<>>
    ELSE LET j == MatchFrom(pat, 1, s, i)
         IN  IF j # 0 THEN repl \o SubFrom(pat, repl, s, j)
             ELSE <<s[i]>> \o SubFrom(pat, repl, s, i + 1)

re_sub(pat, repl, s) == SubFrom(pat, repl, s, 1)

\* str.replace(old, new) for a one-atom old.
RECURSIVE str_replace(_, _, _)
str_replace(s, old, new) ==
    IF s = <<>> THEN <<>>
    ELSE (IF Head(s) = old THEN new ELSE <<Head(s)>>)
         \o str_replace(Tail(s), old, new)

(***************************************************************************)
(* The credential object.  A dict is a record over the four keys; a key    *)
(* the dict does not hold carries Missing.  NoConfig is ibm_config = None. *)
(***************************************************************************)
Missing == "<missing>"
NoConfig == [dict |-> FALSE, token |-> Missing, channel |-> Missing,
             instance |-> Missing, region |-> Missing]
Config(t, c, i, r) == [dict |-> TRUE, token |-> t, channel |-> c,
                       instance |-> i, region |-> r]
\* d.get(key, default); d.get(key) is dict_get(d, key, None).
dict_get(v, default) == IF v = Missing THEN default ELSE v

\* A dict counts as a credential even when its token is empty.
has_token_any_dict(ibm_config) == ibm_config.dict

\* `ibm_config and ibm_config.get("token")`
has_token(ibm_config) ==
    ibm_config.dict /\ Truthy(dict_get(ibm_config.token, None))

(***************************************************************************)
(* A replacement handed to re.sub is a template: re.sub expands the        *)
(* backslash escapes in it and raises re.error on one it does not know.    *)
(***************************************************************************)
TokA == "tokA"
TokB == "tokB"
\* The token t\\x (two backslashes): the template expands it to t\x.
TokEsc == "t\\\\x"
TokEscExpanded == "t\\x"
\* The token t\q: `bad escape \q`.
TokBad == "t\\q"

BadEscape(a) == a = TokBad
ExpandAtom(a) == IF a = TokEsc THEN TokEscExpanded ELSE a
expand_template(repl) == [k \in 1..Len(repl) |-> ExpandAtom(repl[k])]
template_raises(repl) == \E k \in 1..Len(repl) : BadEscape(repl[k])

\* re.sub(pattern, repl, code) with repl a template.
re_sub_template(pat, repl, s) == re_sub(pat, expand_template(repl), s)

(***************************************************************************)
(* replace_ibm_quantum_config: the token-present family                    *)
(***************************************************************************)
aer_pattern == <<AerImport, NL, NL, AerBackend, NL, PrintLocal>>
ibm_pattern_no_token ==
    <<IbmImport, NL, NL, SvcAssign, SvcCall, NL, LeastBusy>>
ibm_pattern_with_token ==
    <<IbmImport, NL, NL, SvcAssign, SvcTokOpen, AnyNoQuote, SvcTokClose, NL,
      LeastBusy>>

\* An f-string renders None as the text None.
fstr(v) == v

\* service_params joined by ",\n    "
service_params_str(ibm_config) ==
    LET channel == dict_get(ibm_config.channel, "ibm_quantum")
        instance == dict_get(ibm_config.instance, None)
        region == dict_get(ibm_config.region, None)
    IN  <<"channel=\"", fstr(channel), "\"", ",", NL, Indent,
          "token=\"", fstr(ibm_config.token), "\"">>
        \o (IF Truthy(instance)
            THEN <<",", NL, Indent, "instance=\"", fstr(instance), "\"">>
            ELSE <<>>)
        \o (IF Truthy(region)
            THEN <<",", NL, Indent, "region=\"", fstr(region), "\"">>
            ELSE <<>>)

replacement_ibm(ibm_config) ==
    <<IbmImport, NL, NL, InitComment, NL, SvcAssign, SvcOpen, NL, Indent>>
    \o service_params_str(ibm_config)
    \o <<NL, ")", NL, LeastBusy, NL, PrintIbmOpen, BackendName, PrintIbmClose>>

\* The remote block without credential tried before the local-simulator block.
token_rule_remote_first(code) ==
    IF re_search(ibm_pattern_no_token, code) THEN "b"
    ELSE IF re_search(aer_pattern, code) THEN "a"
    ELSE IF re_search(ibm_pattern_with_token, code) THEN "c"
    ELSE IF Contains(code, SvcCall) THEN "d"
    ELSE "e"

\* The rule of the token-present family that applies: first match wins.
token_rule(code) ==
    IF re_search(aer_pattern, code) THEN "a"
    ELSE IF re_search(ibm_pattern_no_token, code) THEN "b"
    ELSE IF re_search(ibm_pattern_with_token, code) THEN "c"
    ELSE IF Contains(code, SvcCall) THEN "d"
    ELSE "e"

\* Rule (d) writing the parameters after the call instead of into it, so that
\* its output holds the trigger of rule (d) again.
token_present_keeps_call(code, ibm_config) ==
    LET replacement == replacement_ibm(ibm_config)
        rule == token_rule(code)
    IN  CASE rule = "a" -> re_sub_template(aer_pattern, replacement, code)
          [] rule = "b" -> re_sub_template(ibm_pattern_no_token, replacement, code)
          [] rule = "c" -> re_sub_template(ibm_pattern_with_token, replacement, code)
          [] rule = "d" -> str_replace(code, SvcCall,
                               <<SvcCall, NL, Indent>>
                               \o service_params_str(ibm_config)
                               \o <<NL, ")">>)
          [] OTHER -> code

token_present(code, ibm_config) ==
    LET replacement == replacement_ibm(ibm_config)
        rule == token_rule(code)
    IN  CASE rule = "a" -> re_sub_template(aer_pattern, replacement, code)
          [] rule = "b" -> re_sub_template(ibm_pattern_no_token, replacement, code)
          [] rule = "c" -> re_sub_template(ibm_pattern_with_token, replacement, code)
          [] rule = "d" -> str_replace(code, SvcCall,
                               <<SvcOpen, NL, Indent>>
                               \o service_params_str(ibm_config)
                               \o <<NL, ")">>)
          [] OTHER -> code

(***************************************************************************)
(* replace_ibm_quantum_config: the token-absent family                     *)
(***************************************************************************)
replacement_local == <<AerImport, NL, NL, AerBackend, NL, PrintLocal>>

ibm_config_pattern == <<StepMark, "0", CfgTitle>>

\* The end of a match of `## STEP \d+.*?\n` at position i, and 0 when none:
\* the mark, one digit atom or more, the rest of the line, the newline.
header_end(s, i) ==
    IF i <= Len(s) /\ s[i] = StepMark
    THEN LET d == i + 1
             e == RunEnd(s, d, AnyNotNL)
         IN  IF d <= Len(s) /\ s[d] \in Digits /\ e <= Len(s) THEN e + 1 ELSE 0
    ELSE 0

\* re.split(r"(## STEP \d+.*?\n)", code): the text before the first header,
\* then header and body in turn.  acc is the piece being collected.
RECURSIVE SplitFrom(_, _, _)
SplitFrom(s, i, acc) ==
    IF i > Len(s) THEN <<acc>>
    ELSE LET j == header_end(s, i)
         IN  IF j # 0
             THEN <<acc, Slice(s, i, j)>> \o SplitFrom(s, j, <<>>)
             ELSE SplitFrom(s, i + 1, Append(acc, s[i]))

re_split_steps(code) == SplitFrom(code, 1, <<>>)

\* "STEP 0" in h and "IBM Quantum Config" in h, for a header h.
is_config_header(h) ==
    /\ \E k \in 1..(Len(h) - 1) : h[k] = StepMark /\ h[k + 1] = "0"
    /\ \E k \in 1..Len(h) : HasIbmCfg(h[k])

\* The headers are the pieces 2, 4, ... (Python's 1, 3, ...).
first_config_header(sections) ==
    LET hits == {k \in 1..Len(sections) :
                    k % 2 = 0 /\ is_config_header(sections[k])}
    IN  IF hits = {} THEN 0 ELSE CHOOSE k \in hits : \A m \in hits : k <= m

\* re.sub(r".*?\.options\..*?\n", "", code): a line that holds the accessor
\* chain and ends in a newline goes, newline included.
RECURSIVE strip_options_from(_, _)
strip_options_from(s, i) ==
    IF i > Len(s) THEN <<>>
    ELSE LET e == RunEnd(s, i, AnyNotNL)
             hit == \E k \in i..(e - 1) : HasOptions(s[k])
         IN  IF e > Len(s) THEN Slice(s, i, e)
             ELSE IF hit THEN strip_options_from(s, e + 1)
             ELSE Slice(s, i, e + 1) \o strip_options_from(s, e + 1)

strip_options(code) == strip_options_from(code, 1)

ibm_patterns ==
    << <<IbmImport, NL, NL, SvcAssign, SvcTokOpen, AnyNoQuote, SvcTokClose, NL,
         LeastBusy, NL, PrintIbmOpen, AnyNoBrace, PrintIbmClose>>,
       <<IbmImport, NL, NL, SvcAssign, SvcCall, NL, LeastBusy>> >>

\* The legacy fallback stripping options lines also when no pattern matched.
legacy_strips_always(code) ==
    IF re_search(ibm_patterns[1], code)
    THEN strip_options(re_sub_template(ibm_patterns[1], replacement_local, code))
    ELSE IF re_search(ibm_patterns[2], code)
    THEN strip_options(re_sub_template(ibm_patterns[2], replacement_local, code))
    ELSE strip_options(code)

legacy(code) ==
    IF re_search(ibm_patterns[1], code)
    THEN strip_options(re_sub_template(ibm_patterns[1], replacement_local, code))
    ELSE IF re_search(ibm_patterns[2], code)
    THEN strip_options(re_sub_template(ibm_patterns[2], replacement_local, code))
    ELSE code

token_absent(code) ==
    LET sections == re_split_steps(code)
        k == first_config_header(sections)
        replaced == IF k = 0 THEN sections
                    ELSE [sections EXCEPT
                            ![k + 1] = <<NL>> \o replacement_local \o <<NL, NL>>]
    IN  IF re_search(ibm_config_pattern, code) /\ Len(sections) >= 3
        THEN strip_options(Flatten(replaced))
        ELSE legacy(code)

(***************************************************************************)
(* replace_ibm_quantum_config(code, ibm_config) under a given mode flag.   *)
(* A buffer that is not text is the one-atom buffer <<Num5>>.              *)
(***************************************************************************)
NotText == <<Num5>>

rewrite_in(code, ibm_config, local) ==
    IF has_token(ibm_config) THEN token_present(code, ibm_config)
    ELSE IF ~local THEN code
    ELSE token_absent(code)

\* A rewriter that expands its template before it looks for a match.
rewrite_raises_eagerly(code, ibm_config, local) ==
    IF has_token(ibm_config)
    THEN \/ ~IsStr(ibm_config.token)
         \/ code = NotText
         \/ template_raises(replacement_ibm(ibm_config))
    ELSE local /\ code = NotText

\* Whether the call raises instead of returning: token[:10] on a token that is
\* no text, a search in a buffer that is no text, a bad escape in a template.
rewrite_raises_in(code, ibm_config, local) ==
    IF has_token(ibm_config)
    THEN \/ ~IsStr(ibm_config.token)
         \/ code = NotText
         \/ /\ token_rule(code) \in {"a", "b", "c"}
            /\ template_raises(replacement_ibm(ibm_config))
    ELSE local /\ code = NotText

(***************************************************************************)
(* What a line of a buffer does when exec runs it.  print writes its text  *)
(* and a newline to sys.stdout.  A line that uses the qiskit libraries     *)
(* (op "lib") depends on what is installed and on the remote service: it   *)
(* may succeed or raise.  Every other atom is part of a statement or a     *)
(* comment and does nothing by itself.                                     *)
(***************************************************************************)
Esc2NL == "\\\\n"
MsgBoom == "boom"
MsgSyntax == "'(' was never closed (<string>, line 1)"
MsgExecArg == "exec() arg 1 must be a string, bytes or code object"
MsgLib == "<library error>"
MsgNameX == "name 'x' is not defined"
MsgNameLeak == "name 'leak' is not defined"
MsgName(n) == IF n = "x" THEN MsgNameX ELSE MsgNameLeak

Op(op, text, name) == [op |-> op, text |-> text, name |-> name]

Sem(a) ==
    CASE a = PrintA -> Op("out", <<"a", NL>>, "")
      [] a = PrintB -> Op("out", <<"b", NL>>, "")
      [] a = PrintFirst -> Op("out", <<"first", NL>>, "")
      [] a = PrintEsc -> Op("out", <<"x", Esc2NL, "y", NL>>, "")
      [] a = PrintLocal -> Op("out", <<"Using local simulator...", NL>>, "")
      [] a = PrintIbmOpen -> Op("out", <<"Using IBM Quantum backend: ", NL>>, "")
      [] a = ErrE -> Op("err", <<"e">>, "")
      [] a = RaiseBoom -> Op("raise", <<>>, MsgBoom)
      [] a = RaiseExit -> Op("exit", <<>>, "")
      [] a = LoopForever -> Op("loop", <<>>, "")
      [] a = Unclosed -> Op("syntax", <<>>, MsgSyntax)
      [] a = SetX -> Op("setg", <<>>, "x")
      [] a = SetLeak -> Op("setb", <<>>, "leak")
      [] a = PrintX -> Op("read", <<"1", NL>>, "x")
      [] a = PrintLeak -> Op("read", <<"1", NL>>, "leak")
      [] a = SetMode -> Op("setmode", <<>>, "")
      [] a \in {AerImport, AerBackend, IbmImport, SvcCall, SvcOpen, SvcTokOpen,
                LeastBusy} -> Op("lib", <<>>, MsgLib)
      [] OTHER -> Op("nop", <<>>, "")

\* The position of the first statement of code at or after i (Len + 1: none).
RECURSIVE next_stmt(_, _)
next_stmt(code, i) ==
    IF i <= Len(code) /\ Sem(code[i]).op = "nop" THEN next_stmt(code, i + 1)
    ELSE i

\* compile(): the buffer as a whole must parse before any line runs.
syntax_error(code) == \E i \in 1..Len(code) : Sem(code[i]).op = "syntax"

(***************************************************************************)
(* Texts of the sandbox and the gateway                                    *)
(***************************************************************************)
ErrPrefix == "Error executing code: "
NoOutput == "Code executed successfully (no output)"
timeout_seconds == 1800
timeout_message ==
    <<"Error: Code execution timed out after ",
      ToString(timeout_seconds \div 60), " minutes.">>

\* output.replace('\\\\n', '\n')
normalize(output) == str_replace(output, Esc2NL, <<NL>>)

\* The two buffers joined the other way round.
success_text_stderr_first(stdout_output, stderr_output) ==
    LET output == stderr_output \o stdout_output
    IN  IF output = <<>> THEN <<NoOutput>> ELSE output

\* `return output if output else "Code executed successfully (no output)"`
success_text(stdout_output, stderr_output) ==
    LET output == stdout_output \o stderr_output
    IN  IF output = <<>> THEN <<NoOutput>> ELSE output

\* f"Error executing code: {str(e)}\n{stderr_output}"
error_text(msg, stderr_output) ==
    <<ErrPrefix, msg, NL>> \o stderr_output

(***************************************************************************)
(* The service: bounds, requests, state                                    *)
(***************************************************************************)
\* Requests the model follows.
NReq == 2
\* The default executor's pool holds 1..MaxPool worker threads.
MaxPool == 2
\* The clock advances in steps of TickSeconds.
TickSeconds == 1800

Reqs == 1..NReq

\* A request body: utf8 is whether its bytes decode as UTF-8 and json whether
\* the decoded text parses; a key the object does not hold carries Missing
\* (has_input for input_value, whose value is a buffer).
Body(json, has_input, input_value, ibm_token) ==
    [utf8 |-> TRUE, json |-> json, has_input |-> has_input,
     input_value |-> input_value, ibm_token |-> ibm_token, channel |-> Missing,
     instance |-> Missing, region |-> Missing]

\* A body whose bytes are no UTF-8 text (b"\xff"): json.loads(bytes) decodes
\* before it parses and raises UnicodeDecodeError, which is a ValueError but
\* no JSONDecodeError.
Undecodable == [Body(FALSE, FALSE, <<>>, Missing) EXCEPT !.utf8 = FALSE]

NoBody == Body(FALSE, FALSE, <<>>, Missing)

ConfigCode == <<IbmImport, NL, NL, SvcAssign, SvcCall, NL, LeastBusy>>

Bodies ==
    { Body(FALSE, FALSE, <<>>, Missing),
      Undecodable,
      Body(TRUE, FALSE, <<>>, Missing),
      Body(TRUE, TRUE, <<PrintA, NL, ErrE, NL, PrintB>>, Missing),
      Body(TRUE, TRUE, <<PrintFirst, NL, ErrE, NL, RaiseBoom>>, Missing),
      Body(TRUE, TRUE, <<RaiseExit>>, Missing),
      Body(TRUE, TRUE, <<LoopForever>>, Missing),
      Body(TRUE, TRUE, <<Unclosed>>, None),
      Body(TRUE, TRUE, <<SetX, NL, SetLeak>>, Missing),
      Body(TRUE, TRUE, <<PrintLeak>>, Missing),
      Body(TRUE, TRUE, <<SetMode>>, Missing),
      Body(TRUE, TRUE, <<>>, ""),
      Body(TRUE, TRUE, ConfigCode, Missing),
      Body(TRUE, TRUE, <<SvcAssign, SvcCall>>, TokA),
      Body(TRUE, TRUE, NotText, Missing) }

NoFault == [kind |-> "none", msg |-> ""]
Fault(kind, msg) == [kind |-> kind, msg |-> msg]
NoResult == [kind |-> "none", value |-> <<>>]
Result(kind, value) == [kind |-> kind, value |-> value]
NoResponse == [status |-> 0, fields |-> {}, output |-> <<>>]
Response(status, fields, output) ==
    [status |-> status, fields |-> fields, output |-> output]

\* A direct call: its arguments, whether it raised, what it returned, and
\* what a second call on that result returned.
RwCall(pc_, code_, cfg_, raised_, out_, out2_) ==
    [pc |-> pc_, code |-> code_, ibm_config |-> cfg_, raised |-> raised_,
     out |-> out_, out2 |-> out2_]
RwOff == RwCall("off", <<>>, NoConfig, FALSE, <<>>, <<>>)

VARIABLES
    LOCAL_MODE,      \* the module's global mode flag
    server,          \* "boot" before __main__ ran, "up", "down" once the loop died
    pool,            \* the number of worker threads of the default executor
    data,            \* data[r]: the body of request r
    gw,              \* gw[r]: run_program for r: "idle", "waiting", "responded", "lost"
    resp,            \* resp[r]: the response sent for r
    elapsed,         \* elapsed[r]: seconds since r was dispatched (0 once answered)
    queue,           \* the executor's work queue: requests not yet picked up
    pc,              \* pc[r]: where the work item of r is in execute_python_code
    code,            \* code[r]: the local `code` of the call
    ibm_config,      \* ibm_config[r]
    ip,              \* ip[r]: the line exec is to run next
    fault,           \* fault[r]: the exception in flight in the call
    exec_globals,    \* exec_globals[r]: names bound in the call's namespace
    builtins,        \* names user code added to the builtins module
    sys_stdout,      \* whose stdout_capture sys.stdout is (0: the process's own)
    sys_stderr,      \* whose stderr_capture sys.stderr is (0: the process's own)
    old_stdout,      \* old_stdout[r]: what redirect_stdout of r saved
    old_stderr,      \* old_stderr[r]
    stdout_capture,  \* stdout_capture[r]
    stderr_capture,  \* stderr_capture[r]
    result,          \* result[r]: what the call returned or raised
    written,         \* written[r]: what the code of r wrote, in write order
    alone,           \* alone[r]: no other call ran while the call of r did
    rw,              \* a direct call of replace_ibm_quantum_config (the tests')
    BATCH_PROCESSING,   \* the loader script's mode, from the environment
    sources,            \* add_documents_to_db: the files or URLs to load
    next_source,        \* the index of the source the loop is at
    documents_to_add,   \* batch mode: the documents fetched so far
    stats,              \* the statistics add_documents_to_db builds up
    loader              \* where the loader is: "off", "loaded", "loop",
                        \* "written", "returned", "raised"

gwvars == <<server, pool, data, gw, resp, elapsed, queue>>
sbvars == <<pc, code, ibm_config, ip, fault, exec_globals, builtins,
            sys_stdout, sys_stderr, old_stdout, old_stderr, stdout_capture,
            stderr_capture, result, written, alone>>
docvars == <<BATCH_PROCESSING, sources, next_source, documents_to_add, stats,
             loader>>
vars == <<LOCAL_MODE, gwvars, sbvars, rw, docvars>>

\* stats as add_documents_to_db initialises it for n sources; the
\* processing_time entry, a wall-clock reading, is left out.
NewStats(n) ==
    [total |-> n, added |-> 0, skipped |-> 0, failed |-> 0, chunks_added |-> 0,
     documents |-> <<>>]

\* The loader script is not running.
LoaderOff ==
    /\ BATCH_PROCESSING = FALSE
    /\ sources = <<>>
    /\ next_source = 1
    /\ documents_to_add = <<>>
    /\ stats = NewStats(0)
    /\ loader = "off"

Init ==
    /\ LOCAL_MODE = TRUE
    /\ server = "boot"
    /\ pool \in 1..MaxPool
    /\ data = [r \in Reqs |-> NoBody]
    /\ gw = [r \in Reqs |-> "idle"]
    /\ resp = [r \in Reqs |-> NoResponse]
    /\ elapsed = [r \in Reqs |-> 0]
    /\ queue = <<>>
    /\ pc = [r \in Reqs |-> "none"]
    /\ code = [r \in Reqs |-> <<>>]
    /\ ibm_config = [r \in Reqs |-> NoConfig]
    /\ ip = [r \in Reqs |-> 1]
    /\ fault = [r \in Reqs |-> NoFault]
    /\ exec_globals = [r \in Reqs |-> {}]
    /\ builtins = {}
    /\ sys_stdout = 0
    /\ sys_stderr = 0
    /\ old_stdout = [r \in Reqs |-> 0]
    /\ old_stderr = [r \in Reqs |-> 0]
    /\ stdout_capture = [r \in Reqs |-> <<>>]
    /\ stderr_capture = [r \in Reqs |-> <<>>]
    /\ result = [r \in Reqs |-> NoResult]
    /\ written = [r \in Reqs |-> <<>>]
    /\ alone = [r \in Reqs |-> TRUE]
    /\ rw = RwOff
    /\ LoaderOff

(***************************************************************************)
(* __main__: the mode flag is set from the launch arguments, then uvicorn  *)
(* serves.                                                                 *)
(***************************************************************************)
Main(cloud, local) ==
    /\ server = "boot"
    /\ LOCAL_MODE' = IF cloud THEN FALSE ELSE TRUE
    /\ server' = "up"
    /\ UNCHANGED <<docvars, rw, pool, data, gw, resp, elapsed, queue, sbvars>>

(***************************************************************************)
(* run_program up to its await of wait_for: the body is parsed, the        *)
(* credential object built, the call of execute_python_code handed to the  *)
(* default executor.  Requests arrive in the order of their numbers.       *)
(***************************************************************************)
build_config(d) ==
    IF Truthy(d.ibm_token)
    THEN Config(d.ibm_token, dict_get(d.channel, "ibm_quantum"),
                dict_get(d.instance, None), dict_get(d.region, None))
    ELSE NoConfig

Receive(r, body) ==
    /\ server = "up"
    /\ gw[r] = "idle"
    /\ \A q \in Reqs : q < r => gw[q] # "idle"
    /\ data' = [data EXCEPT ![r] = body]
    /\ IF ~body.utf8
       THEN \* UnicodeDecodeError in request.json(): no handler
            /\ resp' = [resp EXCEPT ![r] = Response(500, {}, <<>>)]
            /\ gw' = [gw EXCEPT ![r] = "responded"]
            /\ UNCHANGED <<queue, pc, code, ibm_config>>
       ELSE IF ~body.json
       THEN \* JSONDecodeError: json_decode_exception_handler
            /\ resp' = [resp EXCEPT ![r] = Response(400, {"detail"}, <<>>)]
            /\ gw' = [gw EXCEPT ![r] = "responded"]
            /\ UNCHANGED <<queue, pc, code, ibm_config>>
       ELSE IF ~body.has_input
       THEN \* data["input_value"]: KeyError, no handler
            /\ resp' = [resp EXCEPT ![r] = Response(500, {}, <<>>)]
            /\ gw' = [gw EXCEPT ![r] = "responded"]
            /\ UNCHANGED <<queue, pc, code, ibm_config>>
       ELSE /\ code' = [code EXCEPT ![r] = body.input_value]
            /\ ibm_config' = [ibm_config EXCEPT ![r] = build_config(body)]
            /\ queue' = Append(queue, r)
            /\ pc' = [pc EXCEPT ![r] = "queued"]
            /\ gw' = [gw EXCEPT ![r] = "waiting"]
            /\ UNCHANGED resp
    /\ UNCHANGED <<docvars, rw, LOCAL_MODE, server, pool, elapsed, ip, fault, exec_globals,
                   builtins, sys_stdout, sys_stderr, old_stdout, old_stderr,
                   stdout_capture, stderr_capture, result, written, alone>>

(***************************************************************************)
(* The executor: a free worker thread takes the oldest work item and calls *)
(* execute_python_code.  The call begins with the rewrite (line 196), which *)
(* touches nothing another thread sees, so the two are one step; what the  *)
(* rewriter raises is outside the try and leaves the call.                 *)
(***************************************************************************)
Active(q) ==
    pc[q] \in {"enter_out", "enter_err", "exec", "exit_err", "exit_out",
               "return"}

Busy == {q \in Reqs : Active(q)}

replace_ibm_quantum_config(c, cfg) == rewrite_in(c, cfg, LOCAL_MODE)
replace_raises(c, cfg) == rewrite_raises_in(c, cfg, LOCAL_MODE)

\* A worker that runs the buffer as it was received.
WorkerStartRaw(r) ==
    /\ queue # <<>>
    /\ r = Head(queue)
    /\ Cardinality(Busy) < pool
    /\ queue' = Tail(queue)
    /\ pc' = [pc EXCEPT ![r] = "enter_out"]
    /\ alone' = [q \in Reqs |->
                    IF Busy = {} THEN alone[q]
                    ELSE IF q = r \/ q \in Busy THEN FALSE ELSE alone[q]]
    /\ UNCHANGED <<docvars, rw, LOCAL_MODE, server, pool, data, gw, resp, elapsed, code,
                   ibm_config, ip, fault, exec_globals, builtins, sys_stdout,
                   sys_stderr, old_stdout, old_stderr, stdout_capture,
                   stderr_capture, result, written>>

WorkerStart(r) ==
    /\ queue # <<>>
    /\ r = Head(queue)
    /\ Cardinality(Busy) < pool
    /\ queue' = Tail(queue)
    /\ IF replace_raises(code[r], ibm_config[r])
       THEN /\ result' = [result EXCEPT ![r] = Result("Exception", <<>>)]
            /\ pc' = [pc EXCEPT ![r] = "done"]
            /\ UNCHANGED <<code, alone>>
       ELSE /\ code' = [code EXCEPT ![r] =
                           replace_ibm_quantum_config(code[r], ibm_config[r])]
            /\ pc' = [pc EXCEPT ![r] = "enter_out"]
            /\ alone' = [q \in Reqs |->
                            IF Busy = {} THEN alone[q]
                            ELSE IF q = r \/ q \in Busy THEN FALSE ELSE alone[q]]
            /\ UNCHANGED result
    /\ UNCHANGED <<docvars, rw, LOCAL_MODE, server, pool, data, gw, resp, elapsed,
                   ibm_config, ip, fault, exec_globals, builtins, sys_stdout,
                   sys_stderr, old_stdout, old_stderr, stdout_capture,
                   stderr_capture, written>>

(***************************************************************************)
(* execute_python_code, statement by statement                             *)
(***************************************************************************)
\* contextlib.redirect_stdout(stdout_capture).__enter__
EnterStdout(r) ==
    /\ pc[r] = "enter_out"
    /\ old_stdout' = [old_stdout EXCEPT ![r] = sys_stdout]
    /\ sys_stdout' = r
    /\ pc' = [pc EXCEPT ![r] = "enter_err"]
    /\ UNCHANGED <<docvars, rw, LOCAL_MODE, gwvars, code, ibm_config, ip, fault,
                   exec_globals, builtins, sys_stderr, old_stderr,
                   stdout_capture, stderr_capture, result, written, alone>>

\* What exec(code, exec_globals) does before the first line runs: a buffer
\* that is no text is refused, a buffer that does not parse is a SyntaxError.
compile_fault(c) ==
    IF c = NotText THEN Fault("Exception", MsgExecArg)
    ELSE IF syntax_error(c) THEN Fault("Exception", MsgSyntax)
    ELSE NoFault

\* contextlib.redirect_stderr(stderr_capture).__enter__, then exec up to the
\* first line of the buffer (compilation touches nothing shared).
EnterStderr(r) ==
    /\ pc[r] = "enter_err"
    /\ old_stderr' = [old_stderr EXCEPT ![r] = sys_stderr]
    /\ sys_stderr' = r
    /\ fault' = [fault EXCEPT ![r] = compile_fault(code[r])]
    /\ ip' = [ip EXCEPT ![r] = next_stmt(code[r], 1)]
    /\ pc' = [pc EXCEPT ![r] =
                 IF compile_fault(code[r]) # NoFault
                    \/ next_stmt(code[r], 1) > Len(code[r])
                 THEN "exit_err" ELSE "exec"]
    /\ UNCHANGED <<docvars, rw, LOCAL_MODE, gwvars, code, ibm_config, exec_globals,
                   builtins, sys_stdout, old_stdout, stdout_capture,
                   stderr_capture, result, written, alone>>

\* A write to sys.stdout / sys.stderr lands in the buffer the name is bound to
\* at that moment; what goes to the process's own stream leaves the model.
write_to(target, capture, text) ==
    IF target = 0 THEN capture ELSE [capture EXCEPT ![target] = @ \o text]

log_write(r, stream, text) ==
    [written EXCEPT ![r] = @ \o [k \in 1..Len(text) |-> <<stream, text[k]>>]]

\* The position after the statement at ip[r], and where the call goes next.
Advance(r) ==
    LET n == next_stmt(code[r], ip[r] + 1)
    IN  /\ ip' = [ip EXCEPT ![r] = n]
        /\ pc' = [pc EXCEPT ![r] = IF n > Len(code[r]) THEN "exit_err" ELSE "exec"]

Raise(r, kind, msg) ==
    /\ fault' = [fault EXCEPT ![r] = Fault(kind, msg)]
    /\ pc' = [pc EXCEPT ![r] = "exit_err"]
    /\ UNCHANGED ip

\* One statement of the buffer.  `while True: pass` never ends: no step.  The
\* code runs in the server's own process and reaches the module's globals.
ExecStep(r) ==
    /\ pc[r] = "exec"
    /\ LET st == Sem(code[r][ip[r]])
           bound == st.name \in (exec_globals[r] \cup builtins)
       IN  /\ st.op # "loop"
           /\ CASE st.op = "out" \/ (st.op = "read" /\ bound) ->
                     /\ stdout_capture' = write_to(sys_stdout, stdout_capture, st.text)
                     /\ written' = log_write(r, "out", st.text)
                     /\ Advance(r)
                     /\ UNCHANGED <<fault, stderr_capture, exec_globals, builtins>>
                [] st.op = "err" ->
                     /\ stderr_capture' = write_to(sys_stderr, stderr_capture, st.text)
                     /\ written' = log_write(r, "err", st.text)
                     /\ Advance(r)
                     /\ UNCHANGED <<fault, stdout_capture, exec_globals, builtins>>
                [] st.op = "read" /\ ~bound ->
                     /\ Raise(r, "Exception", MsgName(st.name))
                     /\ UNCHANGED <<stdout_capture, stderr_capture, written,
                                    exec_globals, builtins>>
                [] st.op = "raise" ->
                     /\ Raise(r, "Exception", st.name)
                     /\ UNCHANGED <<stdout_capture, stderr_capture, written,
                                    exec_globals, builtins>>
                [] st.op = "exit" ->
                     /\ Raise(r, "SystemExit", "")
                     /\ UNCHANGED <<stdout_capture, stderr_capture, written,
                                    exec_globals, builtins>>
                [] st.op = "setg" ->
                     /\ exec_globals' = [exec_globals EXCEPT ![r] = @ \cup {st.name}]
                     /\ Advance(r)
                     /\ UNCHANGED <<fault, stdout_capture, stderr_capture,
                                    written, builtins>>
                [] st.op = "setb" ->
                     /\ builtins' = builtins \cup {st.name}
                     /\ Advance(r)
                     /\ UNCHANGED <<fault, stdout_capture, stderr_capture,
                                    written, exec_globals>>
                [] st.op = "setmode" ->
                     /\ Advance(r)
                     /\ UNCHANGED <<fault, stdout_capture, stderr_capture,
                                    written, exec_globals, builtins>>
                [] st.op = "lib" ->
                     /\ \/ Advance(r) /\ UNCHANGED fault
                        \/ Raise(r, "Exception", st.name)
                     /\ UNCHANGED <<stdout_capture, stderr_capture, written,
                                    exec_globals, builtins>>
           /\ LOCAL_MODE' = IF st.op = "setmode" THEN FALSE ELSE LOCAL_MODE
    /\ UNCHANGED <<docvars, rw, gwvars, code, ibm_config, sys_stdout, sys_stderr,
                   old_stdout, old_stderr, result, alone>>

\* redirect_stderr.__exit__, on the way out of the with block, fault or not
ExitStderr(r) ==
    /\ pc[r] = "exit_err"
    /\ sys_stderr' = old_stderr[r]
    /\ pc' = [pc EXCEPT ![r] = "exit_out"]
    /\ UNCHANGED <<docvars, rw, LOCAL_MODE, gwvars, code, ibm_config, ip, fault,
                   exec_globals, builtins, sys_stdout, old_stdout, old_stderr,
                   stdout_capture, stderr_capture, result, written, alone>>

\* redirect_stdout.__exit__
ExitStdout(r) ==
    /\ pc[r] = "exit_out"
    /\ sys_stdout' = old_stdout[r]
    /\ pc' = [pc EXCEPT ![r] = "return"]
    /\ UNCHANGED <<docvars, rw, LOCAL_MODE, gwvars, code, ibm_config, ip, fault,
                   exec_globals, builtins, sys_stderr, old_stdout, old_stderr,
                   stdout_capture, stderr_capture, result, written, alone>>

\* What the call hands back: lines 216-226 after a run without fault, the
\* handler of `except Exception` (228-232) after a fault it catches; a
\* SystemExit is no Exception and leaves the call.
execute_python_code_return(f, stdout_output, stderr_output) ==
    IF f.kind = "none"
    THEN Result("value", success_text(stdout_output, stderr_output))
    ELSE IF f.kind = "Exception"
    THEN Result("value", error_text(f.msg, stderr_output))
    ELSE Result(f.kind, <<>>)

Return(r) ==
    /\ pc[r] = "return"
    /\ result' = [result EXCEPT ![r] =
                     execute_python_code_return(fault[r], stdout_capture[r],
                                                stderr_capture[r])]
    /\ pc' = [pc EXCEPT ![r] = "done"]
    /\ UNCHANGED <<docvars, rw, LOCAL_MODE, gwvars, code, ibm_config, ip, fault,
                   exec_globals, builtins, sys_stdout, sys_stderr, old_stdout,
                   old_stderr, stdout_capture, stderr_capture, written, alone>>

(***************************************************************************)
(* run_program after the await: the result, the timeout                    *)
(***************************************************************************)
\* A gateway that hands on whatever a finished call holds even when the
\* request has its answer already.
RespondAgain(r) ==
    /\ server = "up"
    /\ gw[r] \in {"waiting", "responded"}
    /\ pc[r] = "done"
    /\ result[r].kind = "value"
    /\ resp' = [resp EXCEPT ![r] =
                  Response(200, {"output"}, normalize(result[r].value))]
    /\ gw' = [gw EXCEPT ![r] = "responded"]
    /\ elapsed' = [elapsed EXCEPT ![r] = 0]
    /\ UNCHANGED <<docvars, rw, LOCAL_MODE, server, pool, data, queue, sbvars>>

\* The future of r is done and wait_for returns or raises what it holds.  A
\* value is sent as output; an Exception is not caught by the handler of
\* asyncio.TimeoutError and becomes a 500; a SystemExit passes through the
\* task into the event loop, which stops: the requests in flight get nothing.
Respond(r) ==
    /\ server = "up"
    /\ gw[r] = "waiting"
    /\ pc[r] = "done"
    /\ CASE result[r].kind = "value" ->
              /\ resp' = [resp EXCEPT ![r] =
                            Response(200, {"output"}, normalize(result[r].value))]
              /\ gw' = [gw EXCEPT ![r] = "responded"]
              /\ UNCHANGED server
         [] result[r].kind = "Exception" ->
              /\ resp' = [resp EXCEPT ![r] = Response(500, {}, <<>>)]
              /\ gw' = [gw EXCEPT ![r] = "responded"]
              /\ UNCHANGED server
         [] OTHER ->
              /\ server' = "down"
              /\ gw' = [q \in Reqs |-> IF gw[q] = "waiting" THEN "lost" ELSE gw[q]]
              /\ UNCHANGED resp
    /\ elapsed' = [q \in Reqs |->
                     IF gw'[q] \in {"waiting", "lost"} THEN elapsed[q] ELSE 0]
    /\ UNCHANGED <<docvars, rw, LOCAL_MODE, pool, data, queue, sbvars>>

\* A timeout that also ends the call of the request, running or not.
TimeoutKillsCall(r) ==
    /\ server = "up"
    /\ gw[r] = "waiting"
    /\ elapsed[r] >= timeout_seconds
    /\ resp' = [resp EXCEPT ![r] =
                  Response(200, {"output"}, normalize(timeout_message))]
    /\ gw' = [gw EXCEPT ![r] = "responded"]
    /\ pc' = [pc EXCEPT ![r] = IF pc[r] = "done" THEN "done" ELSE "cancelled"]
    /\ queue' = SelectSeq(queue, LAMBDA q : q # r)
    /\ elapsed' = [elapsed EXCEPT ![r] = 0]
    /\ UNCHANGED <<docvars, rw, LOCAL_MODE, server, pool, data, code, ibm_config,
                   ip, fault, exec_globals, builtins, sys_stdout, sys_stderr,
                   old_stdout, old_stderr, stdout_capture, stderr_capture,
                   result, written, alone>>

\* asyncio.TimeoutError: the wait ends and the future is cancelled.  A work
\* item no worker has taken yet is dropped from the queue; one that runs is
\* left alone.
Timeout(r) ==
    /\ server = "up"
    /\ gw[r] = "waiting"
    /\ elapsed[r] >= timeout_seconds
    /\ resp' = [resp EXCEPT ![r] =
                  Response(200, {"output"}, normalize(timeout_message))]
    /\ gw' = [gw EXCEPT ![r] = "responded"]
    /\ IF pc[r] = "queued"
       THEN /\ pc' = [pc EXCEPT ![r] = "cancelled"]
            /\ queue' = SelectSeq(queue, LAMBDA q : q # r)
       ELSE UNCHANGED <<pc, queue>>
    /\ elapsed' = [elapsed EXCEPT ![r] = 0]
    /\ UNCHANGED <<docvars, rw, LOCAL_MODE, server, pool, data, code, ibm_config,
                   ip, fault, exec_globals, builtins, sys_stdout, sys_stderr,
                   old_stdout, old_stderr, stdout_capture, stderr_capture,
                   result, written, alone>>

\* Time passes for the requests that have no answer yet.  The loop runs a
\* timer that is due before more time passes, and a free worker takes a
\* queued call before more time passes; the clock of a request stops one
\* tick after the timeout.
Unanswered(r) == gw[r] \in {"waiting", "lost"}

Tick ==
    /\ \E r \in Reqs : Unanswered(r) /\ elapsed[r] <= timeout_seconds
    /\ \A r \in Reqs : gw[r] = "waiting" => elapsed[r] < timeout_seconds
    /\ queue = <<>> \/ Cardinality(Busy) >= pool
    /\ elapsed' = [r \in Reqs |->
                     IF Unanswered(r) /\ elapsed[r] <= timeout_seconds
                     THEN elapsed[r] + TickSeconds ELSE elapsed[r]]
    /\ UNCHANGED <<docvars, rw, LOCAL_MODE, server, pool, data, gw, resp, queue, sbvars>>

Next ==
    \/ \E cloud \in BOOLEAN, local \in BOOLEAN : Main(cloud, local)
    \/ \E r \in Reqs, body \in Bodies : Receive(r, body)
    \/ \E r \in Reqs : WorkerStart(r)
    \/ \E r \in Reqs : EnterStdout(r)
    \/ \E r \in Reqs : EnterStderr(r)
    \/ \E r \in Reqs : ExecStep(r)
    \/ \E r \in Reqs : ExitStderr(r)
    \/ \E r \in Reqs : ExitStdout(r)
    \/ \E r \in Reqs : Return(r)
    \/ \E r \in Reqs : Respond(r)
    \/ \E r \in Reqs : Timeout(r)
    \/ Tick

Spec == Init /\ [][Next]_vars

(***************************************************************************)
(* Direct calls of replace_ibm_quantum_config, as the test suite makes     *)
(* them: the mode flag is set by the caller, the buffer is a concatenation *)
(* of at most MaxBlocks blocks, the credential is any dict or None.        *)
(***************************************************************************)
MaxBlocks == 2

\* The block the rewriter itself writes for the token TokA.
RwOwnBlock ==
    expand_template(replacement_ibm(Config(TokA, Missing, Missing, Missing)))

RwBlocks ==
    { aer_pattern,
      RwOwnBlock,
      ibm_pattern_no_token,
      <<IbmImport, NL, NL, SvcAssign, SvcTokOpen, OldTok, SvcTokClose, NL,
        LeastBusy>>,
      <<IbmImport, NL, NL, SvcAssign, SvcTokOpen, OldTok, SvcTokClose, NL,
        LeastBusy, NL, PrintIbmOpen, BackendName, PrintIbmClose, NL>>,
      <<NL, PrintIbmOpen, BackendName, PrintIbmClose, NL>>,
      <<StepMark, "0", CfgTitle, NL>>,
      <<StepMark, "0", CfgTitle>>,
      <<StepMark, "1", TestTitle, NL>>,
      <<OptLine, NL>>,
      <<OptLine>>,
      <<SvcAssign, SvcCall, NL>>,
      <<PrintA, NL>> }

RECURSIVE RwCodes(_)
RwCodes(n) ==
    IF n = 0 THEN {<<>>}
    ELSE LET shorter == RwCodes(n - 1)
         IN  shorter \cup {c \o b : c \in shorter, b \in RwBlocks}

RwConfigs ==
    { NoConfig,
      Config(Missing, Missing, Missing, Missing),
      Config("", "ibm_cloud", Missing, Missing),
      Config(None, "ibm_quantum", None, None),
      Config(TokA, Missing, Missing, Missing),
      Config(TokB, "ibm_cloud", "crn", "us"),
      Config(TokEsc, "ibm_quantum", None, ""),
      Config(TokBad, "ibm_quantum", "", None) }

InitRewrite ==
    /\ LOCAL_MODE \in BOOLEAN
    /\ server = "boot"
    /\ pool = 1
    /\ data = [r \in Reqs |-> NoBody]
    /\ gw = [r \in Reqs |-> "idle"]
    /\ resp = [r \in Reqs |-> NoResponse]
    /\ elapsed = [r \in Reqs |-> 0]
    /\ queue = <<>>
    /\ pc = [r \in Reqs |-> "none"]
    /\ code = [r \in Reqs |-> <<>>]
    /\ ibm_config = [r \in Reqs |-> NoConfig]
    /\ ip = [r \in Reqs |-> 1]
    /\ fault = [r \in Reqs |-> NoFault]
    /\ exec_globals = [r \in Reqs |-> {}]
    /\ builtins = {}
    /\ sys_stdout = 0
    /\ sys_stderr = 0
    /\ old_stdout = [r \in Reqs |-> 0]
    /\ old_stderr = [r \in Reqs |-> 0]
    /\ stdout_capture = [r \in Reqs |-> <<>>]
    /\ stderr_capture = [r \in Reqs |-> <<>>]
    /\ result = [r \in Reqs |-> NoResult]
    /\ written = [r \in Reqs |-> <<>>]
    /\ alone = [r \in Reqs |-> TRUE]
    /\ rw \in {RwCall("in", c, cfg, FALSE, <<>>, <<>>) :
                  c \in RwCodes(MaxBlocks), cfg \in RwConfigs}
    /\ LoaderOff

\* replaced_code = replace_ibm_quantum_config(original_code, ibm_config)
CallRewrite ==
    /\ rw.pc = "in"
    /\ rw' = IF replace_raises(rw.code, rw.ibm_config)
             THEN [rw EXCEPT !.pc = "out", !.raised = TRUE]
             ELSE [rw EXCEPT !.pc = "out",
                     !.out = replace_ibm_quantum_config(rw.code, rw.ibm_config)]
    /\ UNCHANGED <<docvars, LOCAL_MODE, gwvars, sbvars>>

\* The same call on what the first returned.
CallRewriteAgain ==
    /\ rw.pc = "out"
    /\ ~rw.raised
    /\ rw' = IF replace_raises(rw.out, rw.ibm_config)
             THEN [rw EXCEPT !.pc = "again", !.raised = TRUE]
             ELSE [rw EXCEPT !.pc = "again",
                     !.out2 = replace_ibm_quantum_config(rw.out, rw.ibm_config)]
    /\ UNCHANGED <<docvars, LOCAL_MODE, gwvars, sbvars>>

NextRewrite == CallRewrite \/ CallRewriteAgain

SpecRewrite == InitRewrite /\ [][NextRewrite]_vars

(***************************************************************************)
(* The document loader script: add_documents_to_db                         *)
(***************************************************************************)
MaxSources == 3
MaxChunks == 2

\* A chunks value that is no number (JSON null in write_stats).
NullChunks == 0 - 1

\* What client.call_tool('write_documents', ...) can give: it raises, or it
\* returns a result whose data is JSON text or a dict with a chunk count
\* (a number or null), text that is no JSON, or None; or a result without
\* data, with or without content.
WriteResult(kind_, chunks_) == [kind |-> kind_, chunks |-> chunks_]
WriteResults ==
    {WriteResult("data", c) : c \in (0..MaxChunks) \cup {NullChunks}}
    \cup {WriteResult(k, 0) :
            k \in {"raises", "bad_json", "data_none", "content", "bare"}}

\* document_exists always returns False.
document_exists(url) == FALSE

\* A document as get_document returns it (its text is left out), and the None
\* it returns instead when reading or fetching failed: every exception is
\* caught there.
Document(source) == [some |-> TRUE, url |-> source]
NoDocument == [some |-> FALSE, url |-> 0]

get_document(source, fetched) ==
    IF fetched THEN Document(source) ELSE NoDocument

\* One entry of stats["documents"]; its time is left out.
DocResult(url_, status_, chunks_, error_) ==
    [url |-> url_, status |-> status_, chunks |-> chunks_, error |-> error_]

\* process_document: the status of one document. Whatever is raised inside,
\* by the fetch or by the write call, makes the document "failed"; a write
\* result that cannot be read still makes it "added".
process_document(doc_url, fetched, w) ==
    IF document_exists(doc_url)
    THEN DocResult(doc_url, "skipped", 0, None)
    ELSE IF ~get_document(doc_url, fetched).some
    THEN DocResult(doc_url, "failed", 0, "Failed to retrieve document")
    ELSE CASE w.kind = "raises" -> DocResult(doc_url, "failed", 0, "raised")
           [] w.kind = "data" -> DocResult(doc_url, "added", w.chunks, None)
           [] w.kind = "content" -> DocResult(doc_url, "added", 1, None)
           [] w.kind = "bare" ->
                DocResult(doc_url, "added", 0,
                          "Added but couldn't parse chunk count")
           [] OTHER ->
                DocResult(doc_url, "added", 0,
                          "Added but couldn't parse chunk count: e")

\* Individual mode counts every result under exactly one of added, skipped
\* and failed.
track_added_only(st, res) ==
    [st EXCEPT !.documents = Append(@, res),
               !.added = IF res.status = "added" THEN @ + 1 ELSE @,
               !.skipped = IF res.status = "skipped" THEN @ + 1 ELSE @]

track(st, res) ==
    [st EXCEPT !.documents = Append(@, res),
               !.added = IF res.status = "added" THEN @ + 1 ELSE @,
               !.skipped = IF res.status = "skipped" THEN @ + 1 ELSE @,
               !.failed = IF res.status \notin {"added", "skipped"}
                          THEN @ + 1 ELSE @]

InitDocs ==
    /\ LOCAL_MODE = TRUE
    /\ server = "boot"
    /\ pool = 1
    /\ data = [r \in Reqs |-> NoBody]
    /\ gw = [r \in Reqs |-> "idle"]
    /\ resp = [r \in Reqs |-> NoResponse]
    /\ elapsed = [r \in Reqs |-> 0]
    /\ queue = <<>>
    /\ pc = [r \in Reqs |-> "none"]
    /\ code = [r \in Reqs |-> <<>>]
    /\ ibm_config = [r \in Reqs |-> NoConfig]
    /\ ip = [r \in Reqs |-> 1]
    /\ fault = [r \in Reqs |-> NoFault]
    /\ exec_globals = [r \in Reqs |-> {}]
    /\ builtins = {}
    /\ sys_stdout = 0
    /\ sys_stderr = 0
    /\ old_stdout = [r \in Reqs |-> 0]
    /\ old_stderr = [r \in Reqs |-> 0]
    /\ stdout_capture = [r \in Reqs |-> <<>>]
    /\ stderr_capture = [r \in Reqs |-> <<>>]
    /\ result = [r \in Reqs |-> NoResult]
    /\ written = [r \in Reqs |-> <<>>]
    /\ alone = [r \in Reqs |-> TRUE]
    /\ rw = RwOff
    /\ BATCH_PROCESSING \in BOOLEAN
    /\ sources = <<>>
    /\ next_source = 1
    /\ documents_to_add = <<>>
    /\ stats = NewStats(0)
    /\ loader = "loaded"

\* add_documents_to_db up to its loops: the sources are the files glob finds
\* or the URLs given, and stats starts with their number as total.
AddDocumentsStart(n) ==
    /\ loader = "loaded"
    /\ sources' = [k \in 1..n |-> k]
    /\ stats' = NewStats(n)
    /\ next_source' = 1
    /\ documents_to_add' = <<>>
    /\ loader' = "loop"
    /\ UNCHANGED <<BATCH_PROCESSING, LOCAL_MODE, gwvars, sbvars, rw>>

\* Batch mode, one turn of the loop over the sources.
BatchSource(fetched) ==
    /\ loader = "loop"
    /\ BATCH_PROCESSING
    /\ next_source <= Len(sources)
    /\ LET source == sources[next_source]
           document == get_document(source, fetched)
       IN  IF document_exists(source)
           THEN /\ stats' = [stats EXCEPT !.skipped = @ + 1]
                /\ UNCHANGED documents_to_add
           ELSE IF document.some
           THEN /\ documents_to_add' = Append(documents_to_add, document)
                /\ UNCHANGED stats
           ELSE /\ stats' = [stats EXCEPT !.failed = @ + 1]
                /\ UNCHANGED documents_to_add
    /\ next_source' = next_source + 1
    /\ UNCHANGED <<BATCH_PROCESSING, sources, loader, LOCAL_MODE, gwvars, sbvars,
                   rw>>

\* Batch mode after the loop: the one write of what was fetched. When the
\* call raises, or the chunk count is no number, the exception leaves
\* add_documents_to_db.
BatchWrite(w) ==
    /\ loader = "loop"
    /\ BATCH_PROCESSING
    /\ next_source > Len(sources)
    /\ LET n == Len(documents_to_add)
           entries(chunks, error) ==
               [k \in 1..n |->
                   DocResult(documents_to_add[k].url, "added", chunks, error)]
       IN  IF n = 0
           THEN loader' = "written" /\ UNCHANGED stats
           ELSE CASE w.kind = "raises" ->
                       loader' = "raised" /\ UNCHANGED stats
                  [] w.kind = "data" /\ w.chunks = NullChunks ->
                       /\ loader' = "raised"
                       /\ stats' = [stats EXCEPT !.chunks_added = w.chunks,
                                                 !.added = n]
                  [] w.kind = "data" /\ w.chunks # NullChunks ->
                       /\ loader' = "written"
                       /\ stats' = [stats EXCEPT
                                      !.chunks_added = w.chunks,
                                      !.added = n,
                                      !.documents =
                                          @ \o entries(w.chunks \div n, None)]
                  [] w.kind \in {"content", "bare"} ->
                       /\ loader' = "written"
                       /\ stats' = [stats EXCEPT
                                      !.added = n,
                                      !.documents = @ \o entries(0, None)]
                  [] OTHER ->
                       /\ loader' = "written"
                       /\ stats' = [stats EXCEPT
                                      !.added = n,
                                      !.documents =
                                          @ \o entries(0,
                                              "Couldn't parse chunk count: e")]
    /\ UNCHANGED <<BATCH_PROCESSING, sources, next_source, documents_to_add,
                   LOCAL_MODE, gwvars, sbvars, rw>>

\* Individual mode, one turn of the loop: the document is processed and its
\* result counted. Adding a chunk count that is no number raises, after the
\* result was appended and counted as added.
IndividualSource(fetched, w) ==
    /\ loader = "loop"
    /\ ~BATCH_PROCESSING
    /\ next_source <= Len(sources)
    /\ LET res == process_document(sources[next_source], fetched, w)
           counted == track(stats, res)
       IN  IF res.status = "added" /\ res.chunks = NullChunks
           THEN /\ stats' = counted
                /\ loader' = "raised"
           ELSE /\ stats' = [counted EXCEPT
                               !.chunks_added =
                                  IF res.status = "added"
                                  THEN @ + res.chunks ELSE @]
                /\ UNCHANGED loader
    /\ next_source' = next_source + 1
    /\ UNCHANGED <<BATCH_PROCESSING, sources, documents_to_add, LOCAL_MODE,
                   gwvars, sbvars, rw>>

\* The loops are over.
LoopsDone ==
    IF BATCH_PROCESSING THEN loader = "written"
    ELSE loader = "loop" /\ next_source > Len(sources)

\* return stats
ReturnStats ==
    /\ LoopsDone
    /\ loader' = "returned"
    /\ UNCHANGED <<BATCH_PROCESSING, sources, next_source, documents_to_add,
                   stats, LOCAL_MODE, gwvars, sbvars, rw>>

NextDocs ==
    \/ \E n \in 0..MaxSources : AddDocumentsStart(n)
    \/ \E fetched \in BOOLEAN : BatchSource(fetched)
    \/ \E w \in WriteResults : BatchWrite(w)
    \/ \E fetched \in BOOLEAN, w \in WriteResults : IndividualSource(fetched, w)
    \/ ReturnStats

SpecDocs == InitDocs /\ [][NextDocs]_vars

(***************************************************************************)
(* Claims                                                                  *)
(***************************************************************************)

\* C1: the rule family is selected by the credential and the mode flag only.
\* With a non-empty token the call returns what the token-present family
\* gives, whatever the mode flag; without one (no credential, or a dict whose
\* token is missing, None or empty) it returns what the token-absent family
\* gives in local mode and the buffer itself in cloud mode.
C1_NonEmptyToken(cfg) == cfg.dict /\ cfg.token \notin {Missing, None, ""}

C1_FamilySelection ==
    (rw.pc = "out" /\ ~rw.raised) =>
        IF C1_NonEmptyToken(rw.ibm_config)
        THEN rw.out = token_present(rw.code, rw.ibm_config)
        ELSE IF LOCAL_MODE THEN rw.out = token_absent(rw.code)
        ELSE rw.out = rw.code

\* A call with a token in local mode on a buffer the three outcomes tell apart.
C1_Witness ==
    /\ rw.pc = "out" /\ ~rw.raised
    /\ C1_NonEmptyToken(rw.ibm_config)
    /\ LOCAL_MODE
    /\ rw.out # rw.code
    /\ rw.out # token_absent(rw.code)
    /\ token_absent(rw.code) # rw.code

\* What the code of r wrote to one stream, in write order.
Wrote(r, stream) ==
    LET own == SelectSeq(written[r], LAMBDA w : w[1] = stream)
    IN  [k \in 1..Len(own) |-> own[k][2]]

\* What the code of r wrote to both streams, in write order.
WroteAll(r) == [k \in 1..Len(written[r]) |-> written[r][k][2]]

WellFormed(r) == data[r].json /\ data[r].has_input
Returned(r) == pc[r] = "done" /\ result[r].kind = "value"
OkResponse(r) == resp[r].status = 200 /\ resp[r].fields = {"output"}
TimedOut(r) ==
    gw[r] = "responded" /\ OkResponse(r) /\ resp[r].output = timeout_message

\* C2: every request whose body is valid JSON with the code field is answered
\* with status 200 and a body whose only field is output, whatever the code
\* and the credential fields hold and however the execution ends.
C2_WellFormedAnswered200 ==
    \A r \in Reqs :
        (WellFormed(r) /\ gw[r] \in {"responded", "lost"}) => OkResponse(r)

\* C3: execute_python_code never lets a fault of the running code reach its
\* caller: whatever the code raises, the call returns a text.
C3_FaultBecomesText ==
    \A r \in Reqs :
        (pc[r] = "done" /\ fault[r].kind # "none") => result[r].kind = "value"

\* C4: when the code raises partway through, the text returned begins with
\* 'Error executing code: <message>' and holds everything the code wrote
\* before the fault, to standard output as well as to standard error.
C4_FaultKeepsEarlierOutput ==
    \A r \in Reqs :
        (Returned(r) /\ fault[r].kind = "Exception") =>
            /\ Len(result[r].value) >= 3
            /\ SubSeq(result[r].value, 1, 3) = <<ErrPrefix, fault[r].msg, NL>>
            /\ \A k \in 1..Len(written[r]) :
                   Contains(result[r].value, written[r][k][2])

C6_OwnOutputOnly ==
    \A r \in Reqs :
        (Returned(r) /\ fault[r].kind = "none") =>
            result[r].value =
                (IF written[r] = <<>> THEN <<NoOutput>>
                 ELSE Wrote(r, "out") \o Wrote(r, "err"))

\* C7: every execution starts from a fresh context: a name the code of a
\* request can read was bound by that request's own code, also when other
\* requests ran before it (alone: none ran at the same time).
C7_BoundByOwnCode(r, name) ==
    \E k \in 1..(ip[r] - 1) :
        Sem(code[r][k]).op \in {"setg", "setb"} /\ Sem(code[r][k]).name = name

C7_FreshContext ==
    \A r \in Reqs :
        (pc[r] = "exec" /\ alone[r]) =>
            LET st == Sem(code[r][ip[r]])
            IN  (st.op = "read" /\ st.name \in (exec_globals[r] \cup builtins))
                    => C7_BoundByOwnCode(r, st.name)

C10_TimeoutLeavesCallRunning ==
    [][\A r \in Reqs :
          /\ (Active(r) /\ gw[r] = "waiting" /\ gw'[r] = "responded"
              /\ resp'[r].output = timeout_message)
                 => (pc'[r] = pc[r] /\ ip'[r] = ip[r] /\ code'[r] = code[r])
          /\ (Active(r) /\ pc'[r] \notin {"enter_out", "enter_err", "exec",
                                         "exit_err", "exit_out", "return"})
                 => (pc[r] = "return" /\ pc'[r] = "done")]_vars

\* A request answered as timed out whose call still runs and holds the only
\* worker, while a later request's call waits in the queue.
C10_Witness ==
    \E r, q \in Reqs :
        /\ TimedOut(r) /\ pc[r] = "exec"
        /\ pool = 1 /\ pc[q] = "queued"

\* How far the work item of a request has come.
C11_Rank(p) ==
    CASE p = "none" -> 0
      [] p = "queued" -> 1
      [] p = "enter_out" -> 2
      [] p = "enter_err" -> 3
      [] p = "exec" -> 4
      [] p = "exit_err" -> 5
      [] p = "exit_out" -> 6
      [] p = "return" -> 7
      [] OTHER -> 8

C12_InvalidJson4xx ==
    \A r \in Reqs :
        (gw[r] # "idle" /\ ~data[r].json) =>
            /\ gw[r] = "responded"
            /\ resp[r].status \in 400..499
            /\ "output" \notin resp[r].fields
            /\ pc[r] = "none"

\* C13: a request whose body is valid JSON without the field input_value is
\* answered at once with a 4xx status and never reaches rewrite or execution.
C13_MissingField4xx ==
    \A r \in Reqs :
        (gw[r] # "idle" /\ data[r].json /\ ~data[r].has_input) =>
            /\ gw[r] = "responded"
            /\ resp[r].status \in 400..499
            /\ pc[r] = "none"

\* The rules of the token-present family whose trigger occurs in a buffer; a
\* bare construction call counts for rule (d) where it stands outside the
\* remote blocks without credential.
C14_Triggers(c) ==
    (IF re_search(aer_pattern, c) THEN {"a"} ELSE {})
    \cup (IF re_search(ibm_pattern_no_token, c) THEN {"b"} ELSE {})
    \cup (IF re_search(ibm_pattern_with_token, c) THEN {"c"} ELSE {})
    \cup (IF Contains(re_sub(ibm_pattern_no_token, <<>>, c), SvcCall)
          THEN {"d"} ELSE {})

C14_TwiceWithToken ==
    rw.pc = "again" /\ ~rw.raised /\ C1_NonEmptyToken(rw.ibm_config)

C15_TwiceLocal ==
    rw.pc = "again" /\ ~rw.raised /\ LOCAL_MODE /\ rw.ibm_config = NoConfig

\* C15: in local mode with no credential a second application to the output
\* of the first changes nothing, for every buffer, those holding both legacy
\* blocks included.
C15_IdempotentLocal == C15_TwiceLocal => rw.out2 = rw.out

\* The starts of the matches of a pattern in a buffer.
C16_Count(pat, c) ==
    Cardinality({i \in 1..Len(c) : MatchFrom(pat, 1, c, i) # 0})

C16_Calls(c) == Cardinality({i \in 1..Len(c) : c[i] = SvcCall})

\* C16: with a non-empty token the rules are tried in the order (a), (b),
\* (c), (d), (e) and only the first whose trigger occurs is applied: its
\* blocks are replaced and the blocks and calls of the later rules are left
\* as they were; with a local-simulator block and a remote block without
\* credential in the buffer, rule (a) is applied and the remote block stays.
C16_FirstRuleOnly ==
    (rw.pc = "out" /\ ~rw.raised /\ C1_NonEmptyToken(rw.ibm_config)) =>
        LET c == rw.code
            o == rw.out
            block == expand_template(replacement_ibm(rw.ibm_config))
            a == re_search(aer_pattern, c)
            b == re_search(ibm_pattern_no_token, c)
            w == re_search(ibm_pattern_with_token, c)
            d == Contains(c, SvcCall)
        IN  /\ a =>
                 /\ o = re_sub(aer_pattern, block, c)
                 /\ C16_Count(aer_pattern, o) = 0
                 /\ C16_Count(ibm_pattern_no_token, o)
                        = C16_Count(ibm_pattern_no_token, c)
                 /\ C16_Count(ibm_pattern_with_token, o)
                        = C16_Count(ibm_pattern_with_token, c)
                 /\ C16_Calls(o) = C16_Calls(c)
            /\ (~a /\ b) =>
                 /\ o = re_sub(ibm_pattern_no_token, block, c)
                 /\ C16_Count(ibm_pattern_no_token, o) = 0
                 /\ C16_Count(ibm_pattern_with_token, o)
                        = C16_Count(ibm_pattern_with_token, c)
                 /\ C16_Calls(o)
                        = C16_Calls(c) - C16_Count(ibm_pattern_no_token, c)
            /\ (~a /\ ~b /\ w) =>
                 /\ o = re_sub(ibm_pattern_with_token, block, c)
                 /\ C16_Count(ibm_pattern_with_token, o) = 0
                 /\ C16_Calls(o) = C16_Calls(c)
            /\ (~a /\ ~b /\ ~w /\ d) =>
                 /\ C16_Calls(o) = 0
                 /\ Len(o) > Len(c)
            /\ (~a /\ ~b /\ ~w /\ ~d) => o = c

\* A buffer with a local-simulator block and a remote block without
\* credential: the first is replaced, the second is still there.
C16_Witness ==
    /\ rw.pc = "out" /\ ~rw.raised /\ C1_NonEmptyToken(rw.ibm_config)
    /\ re_search(aer_pattern, rw.code)
    /\ re_search(ibm_pattern_no_token, rw.code)
    /\ ~re_search(aer_pattern, rw.out)
    /\ re_search(ibm_pattern_no_token, rw.out)
    /\ Contains(rw.out, rw.ibm_config.token)

\* C17: for a buffer holding the remote block without credential and a
\* non-empty token, the rewritten buffer holds the token and the channel as
\* supplied and no argument-less construction call any more.
C17_TokenInjected ==
    (/\ rw.pc = "out"
     /\ C1_NonEmptyToken(rw.ibm_config)
     /\ re_search(ibm_pattern_no_token, rw.code)) =>
        /\ ~rw.raised
        /\ Contains(rw.out, rw.ibm_config.token)
        /\ Contains(rw.out, dict_get(rw.ibm_config.channel, "ibm_quantum"))
        /\ ~Contains(rw.out, SvcCall)

C18_NoMarker(c) == ~Contains(c, StepMark)
C18_LegacyBlock(c) ==
    re_search(ibm_patterns[1], c) \/ re_search(ibm_patterns[2], c)
C18_CallWithoutCredential ==
    /\ rw.pc = "out" /\ ~rw.raised
    /\ rw.ibm_config = NoConfig
    /\ C18_NoMarker(rw.code)

\* C18 as stated: on a buffer without a section-header marker the rewrite
\* with no credential returns its input.
C18_IdentityWithoutMarker == C18_CallWithoutCredential => rw.out = rw.code

\* C18 as amended: on a buffer without a section-header marker the rewrite
\* with no credential returns its input in cloud mode, and in local mode
\* exactly when neither legacy block occurs in the buffer; a legacy block is
\* replaced by the local-simulator block also where no marker is.
C18_IdentityUnlessLegacy ==
    C18_CallWithoutCredential =>
        (rw.out = rw.code <=> (~LOCAL_MODE \/ ~C18_LegacyBlock(rw.code)))

\* A local-mode call on a buffer without marker and without legacy block
\* that holds an options line: the line is still there.
C18_Witness ==
    /\ C18_CallWithoutCredential
    /\ LOCAL_MODE
    /\ Contains(rw.code, OptLine)
    /\ ~C18_LegacyBlock(rw.code)
    /\ rw.out = rw.code

\* C19: when no rule of the selected family matches (with a token: none of
\* the triggers a-d; without one, in local mode: no config section header and
\* neither legacy block) the call raises nothing and returns its input,
\* options lines included.
C19_NoMatchUnchanged ==
    rw.pc = "out" =>
        /\ (/\ C1_NonEmptyToken(rw.ibm_config)
            /\ ~re_search(aer_pattern, rw.code)
            /\ ~re_search(ibm_pattern_no_token, rw.code)
            /\ ~re_search(ibm_pattern_with_token, rw.code)
            /\ ~Contains(rw.code, SvcCall))
               => (~rw.raised /\ rw.out = rw.code)
        /\ (/\ ~C1_NonEmptyToken(rw.ibm_config)
            /\ LOCAL_MODE
            /\ ~re_search(ibm_config_pattern, rw.code)
            /\ ~C18_LegacyBlock(rw.code))
               => (~rw.raised /\ rw.out = rw.code)

\* A call with a token on a buffer that holds a section header and an options
\* line but no trigger: returned as it was.
C19_Witness ==
    /\ rw.pc = "out" /\ ~rw.raised
    /\ C1_NonEmptyToken(rw.ibm_config)
    /\ C14_Triggers(rw.code) = {}
    /\ Contains(rw.code, OptLine) /\ Contains(rw.code, StepMark)
    /\ rw.out = rw.code

\* C20: a run that completes without fault and wrote nothing to standard
\* output or standard error, the run of an empty buffer included, returns
\* exactly the no-output text, and that is what the response carries.
C20_NoOutputSentinel ==
    \A r \in Reqs :
        (Returned(r) /\ fault[r].kind = "none" /\ written[r] = <<>>) =>
            /\ result[r].value = <<NoOutput>>
            /\ (gw[r] = "responded" /\ ~TimedOut(r)) =>
                   resp[r].output = <<NoOutput>>

\* C21: while the code of one request still runs, a request received later is
\* taken by a free worker of the pool, and it is answered with the output of
\* its own code without waiting for the earlier execution to end.
C21_LaterRequestOwnOutput ==
    \A r, q \in Reqs :
        (r < q /\ Active(r)) =>
            /\ (queue # <<>> /\ Head(queue) = q /\ Cardinality(Busy) < pool)
                   => ENABLED WorkerStart(q)
            /\ (/\ gw[q] = "responded" /\ ~TimedOut(q)
                /\ Returned(q) /\ fault[q].kind = "none") =>
                   resp[q].output =
                      normalize(IF written[q] = <<>> THEN <<NoOutput>>
                                ELSE Wrote(q, "out") \o Wrote(q, "err"))

\* C22 as stated: no request is answered as timed out before its buffer was
\* rewritten and its execution started.
C22_TimedOutAfterStart ==
    \A r \in Reqs :
        TimedOut(r) => pc[r] \in {"enter_out", "enter_err", "exec", "exit_err",
                                  "exit_out", "return", "done"}

\* C22 as amended: within one request the rewrite completes before the
\* execution begins and the code executed is the rewriter's complete output
\* for the buffer and the credential of the request; the gateway moves a
\* request from received to waiting or answered and from waiting to answered
\* (or to unanswered when the server stops) and never back; the timeout
\* answer can come in any state of the call, and a call still queued at that
\* moment is dropped for good, neither rewritten nor executed.
C22_RewriteThenExecute ==
    [][\A r \in Reqs :
          /\ (pc[r] = "queued" /\ pc'[r] \notin {"queued", "cancelled"}) =>
                 IF rewrite_raises_in(data[r].input_value, build_config(data[r]),
                                      LOCAL_MODE)
                 THEN pc'[r] = "done" /\ result'[r].kind = "Exception"
                 ELSE /\ pc'[r] = "enter_out"
                      /\ code'[r] = rewrite_in(data[r].input_value,
                                               build_config(data[r]), LOCAL_MODE)
          /\ pc[r] \notin {"none", "queued"} => code'[r] = code[r]
          /\ (pc[r] = "queued" /\ pc'[r] = "cancelled") =>
                 (code'[r] = data[r].input_value /\ TimedOut(r)')
          /\ pc[r] = "cancelled" => pc'[r] = "cancelled"
          /\ gw'[r] # gw[r] =>
                 <<gw[r], gw'[r]>> \in {<<"idle", "waiting">>,
                                        <<"idle", "responded">>,
                                        <<"waiting", "responded">>,
                                        <<"waiting", "lost">>}]_vars

\* One request was answered as timed out while its call was still queued and
\* was dropped; the other ran the rewriter's output, which differs from the
\* buffer it sent, to the end.
C22_Witness ==
    \E r, q \in Reqs :
        /\ TimedOut(r) /\ pc[r] = "cancelled"
        /\ code[r] = data[r].input_value
        /\ pc[q] = "done" /\ result[q].kind = "value"
        /\ code[q] # data[q].input_value
        /\ code[q] = rewrite_in(data[q].input_value, build_config(data[q]),
                                LOCAL_MODE)

\* C23: the mode flag is set once, at startup, from the launch arguments
\* (cloud when --cloud is given, local otherwise), and no step of handling a
\* request changes it afterwards.
C23_ModeSetAtStartupOnly ==
    [][/\ (server = "boot" /\ server' = "up") =>
             \E cloud, local \in BOOLEAN :
                 Main(cloud, local) /\ LOCAL_MODE' = ~cloud
       /\ server # "boot" => LOCAL_MODE' = LOCAL_MODE]_vars

C24_LocalCallOnHeader ==
    /\ rw.pc = "out" /\ ~rw.raised
    /\ LOCAL_MODE /\ rw.ibm_config = NoConfig
    /\ re_search(ibm_config_pattern, rw.code)

\* C24: in local mode without credential, on a buffer with the config section
\* header, only the body of that section changes: what stands before the
\* body (the header included) and what stands after it is in the output in
\* the original order and unchanged, but for the options lines removed.
C24_OnlyConfigBodyChanged ==
    C24_LocalCallOnHeader =>
        LET sections == re_split_steps(rw.code)
            k == first_config_header(sections)
            o == rw.out
        IN  IF k # 0
            THEN LET head == strip_options(Flatten(SubSeq(sections, 1, k)))
                     rest == strip_options(
                                Flatten(SubSeq(sections, k + 2, Len(sections))))
                 IN  /\ Len(o) >= Len(head) + Len(rest)
                     /\ SubSeq(o, 1, Len(head)) = head
                     /\ SubSeq(o, Len(o) - Len(rest) + 1, Len(o)) = rest
            ELSE o \in {rw.code, strip_options(rw.code)}

\* C25: in local mode without credential the whole body of the config
\* section, from its header line to the next section header or the end of the
\* buffer, gives way to the local-simulator block: the output holds the
\* block right after the header and then the next section.
C25_ConfigBodyReplaced ==
    C24_LocalCallOnHeader =>
        /\ re_search(replacement_local, rw.out)
        /\ LET sections == re_split_steps(rw.code)
               k == first_config_header(sections)
           IN  k # 0 =>
                  rw.out = strip_options(
                              Flatten(SubSeq(sections, 1, k))
                              \o <<NL>> \o replacement_local \o <<NL, NL>>
                              \o Flatten(SubSeq(sections, k + 2, Len(sections))))

\* A buffer with every line that holds the options accessor chain removed,
\* the last line included when it has no newline.
RECURSIVE C26_DropOptionLines(_, _)
C26_DropOptionLines(c, i) ==
    IF i > Len(c) THEN <<>>
    ELSE LET e == RunEnd(c, i, AnyNotNL)
             hit == \E k \in i..(e - 1) : HasOptions(c[k])
             line == Slice(c, i, IF e > Len(c) THEN e ELSE e + 1)
         IN  (IF hit THEN <<>> ELSE line) \o C26_DropOptionLines(c, e + 1)

\* What the token-absent rule that matched makes of the buffer before the
\* options lines go.
C26_Replaced(c) ==
    LET sections == re_split_steps(c)
        k == first_config_header(sections)
    IN  IF re_search(ibm_config_pattern, c) /\ Len(sections) >= 3
        THEN Flatten(IF k = 0 THEN sections
                     ELSE [sections EXCEPT
                             ![k + 1] = <<NL>> \o replacement_local \o <<NL, NL>>])
        ELSE IF re_search(ibm_patterns[1], c)
        THEN re_sub(ibm_patterns[1], replacement_local, c)
        ELSE re_sub(ibm_patterns[2], replacement_local, c)

C26_RuleMatched(c) ==
    \/ re_search(ibm_config_pattern, c) /\ Len(re_split_steps(c)) >= 3
    \/ C18_LegacyBlock(c)

\* C26: after a token-absent rewrite in which a rule matched, the output holds
\* no line with the options accessor chain: every such line is gone, the last
\* line included, and no other line outside the replaced block is.
C26_NoOptionsLineLeft ==
    (/\ rw.pc = "out" /\ ~rw.raised
     /\ LOCAL_MODE /\ rw.ibm_config = NoConfig
     /\ C26_RuleMatched(rw.code)) =>
        /\ ~Contains(rw.out, OptLine)
        /\ rw.out = C26_DropOptionLines(C26_Replaced(rw.code), 1)

C27_Credentialed(c, token) ==
    \/ re_search(ibm_pattern_with_token, c)
    \/ re_search(RwOwnBlock, c) /\ token # TokA

\* C27: with a non-empty token, a buffer holding a remote-service block that
\* carries a credential already, the block this rewriter wrote for another
\* token included, is rewritten to carry the new token, and the previous
\* credential is gone from the output.
C27_CredentialRefreshed ==
    (/\ rw.pc = "out"
     /\ C1_NonEmptyToken(rw.ibm_config)
     /\ C27_Credentialed(rw.code, rw.ibm_config.token)) =>
        /\ ~rw.raised
        /\ Contains(rw.out, rw.ibm_config.token)
        /\ ~Contains(rw.out, OldTok)
        /\ rw.ibm_config.token # TokA => ~Contains(rw.out, TokA)

\* The parameter list as claimed: channel, token, then instance and region
\* where a non-empty one was supplied, and the closing of the call.
C28_Params(cfg) ==
    <<"channel=\"", dict_get(cfg.channel, "ibm_quantum"), "\"", ",", NL, Indent,
      "token=\"", cfg.token, "\"">>
    \o (IF cfg.instance \notin {Missing, None, ""}
        THEN <<",", NL, Indent, "instance=\"", cfg.instance, "\"">> ELSE <<>>)
    \o (IF cfg.region \notin {Missing, None, ""}
        THEN <<",", NL, Indent, "region=\"", cfg.region, "\"">> ELSE <<>>)
    \o <<NL, ")">>

\* C28: whenever a rule of the token-present family applies, the output holds
\* the parameter list with channel (ibm_quantum by default) and token, with
\* instance and region exactly when a non-empty one was supplied, in that
\* order, and the local-simulator block is gone.
C28_ParameterList ==
    (/\ rw.pc = "out"
     /\ C1_NonEmptyToken(rw.ibm_config)
     /\ C14_Triggers(rw.code) # {}) =>
        /\ ~rw.raised
        /\ re_search(<<SvcOpen, NL, Indent>> \o C28_Params(rw.ibm_config), rw.out)
        /\ ~re_search(aer_pattern, rw.out)

\* C29: once every execution has finished, sys.stdout and sys.stderr are the
\* process's own streams again, whatever the interleaving was.
C29_StreamsRestored ==
    (\A r \in Reqs : pc[r] \in {"none", "done", "cancelled"}) =>
        (sys_stdout = 0 /\ sys_stderr = 0)

\* C30: whenever add_documents_to_db returns, added + skipped + failed is the
\* total, the number of sources, in individual and in batch mode and whatever
\* documents could not be fetched or written; in individual mode a document
\* that fails does not stop the loop: every source has its result when the
\* function returns, and a call that ends by an exception did not end at a
\* failed document.
C30_StatsAddUp ==
    /\ loader = "returned" =>
          /\ stats.total = Len(sources)
          /\ stats.added + stats.skipped + stats.failed = stats.total
    /\ (~BATCH_PROCESSING /\ loader = "returned") =>
          /\ Len(stats.documents) = Len(sources)
          /\ \A k \in 1..Len(sources) : stats.documents[k].url = sources[k]
    /\ (~BATCH_PROCESSING /\ loader = "raised") =>
          stats.documents[Len(stats.documents)].status # "failed"

C30_Witness ==
    /\ loader = "returned"
    /\ ~BATCH_PROCESSING
    /\ stats.total = MaxSources
    /\ stats.documents[1].status = "failed"
    /\ stats.documents[1].error = "raised"
    /\ stats.documents[2].status = "failed"
    /\ stats.documents[2].error # "raised"
    /\ stats.documents[MaxSources].status = "added"

=============================================================================
